---------------------------- MODULE Spec2Model ----------------------------
(***************************************************************************)
(* Barotropic vorticity model (barotropic_vorticity/baro_vort.py).         *)
(*                                                                         *)
(* The script is Python 2 (print statements): `/' on two ints is floor     *)
(* division.  numpy's float64 is modelled by a decimal floating point      *)
(* number with four significant digits, <<m, e>> standing for m * 10^e     *)
(* with 1000 <= |m| <= 9999 (or m = 0, e = 0), rounded to nearest after    *)
(* every operation; inf and nan are kept, with IEEE's rules.  complex128   *)
(* is a pair <<re, im>> of such numbers.  An (n, n) array is a sequence of *)
(* length n*n in row-major (C) order.                                      *)
(***************************************************************************)
EXTENDS Integers, Sequences, FiniteSets, TLC

VARIABLES
    pc,             \* "start" (parameters set), "run" (driver loop), "error"
    N,              \* PARAMETERS: numerical resolution
    IC,             \* PARAMETERS: name of the initial condition
    AA_FAC,         \* PARAMETERS: anti-alias factor
    ALLOW_SPEEDUP,  \* PARAMETERS: allow larger timesteps
    seed,           \* what np.random.random will return to random_ic
    dt,             \* timestep (module global, changed by integrate)
    kk, ll,         \* wavenumber mesh
    ksq,            \* k^2 + l^2, 1.0 at the zero wavenumber
    rksq,           \* 1 / ksq
    del4,           \* dissipation operator, computed at setup
    k_max,          \* anti-aliasing cutoff
    z,              \* vorticity in physical space
    zt,             \* F[z], current
    _zt,            \* previous (filtered) value
    zt_,            \* next value
    c,              \* the driver's c = integrate()
    t,              \* the driver's step counter
    \* the locals of the last call of integrate()
    psit, psixt, psix, psiy, zx, zy, jac, jact, rhs

params == <<N, IC, AA_FAC, ALLOW_SPEEDUP, seed>>
grid   == <<kk, ll, ksq, rksq, del4, k_max>>
locals == <<psit, psixt, psix, psiy, zx, zy, jac, jact, rhs>>
vars   == <<pc, params, grid, dt, z, zt, _zt, zt_, c, t, locals>>

(***************************************************************************)
(* float64                                                                 *)
(***************************************************************************)
Inf     == <<1, 1000>>
NegInf  == <<-1, 1000>>
NaN     == <<0, 1000>>
Zero    == <<0, 0>>
One     == <<1000, -3>>
Two     == <<2000, -3>>

IsSpecial(x) == x[2] = 1000
IsFinite(x)  == x[2] # 1000
IsNaN(x)     == x = NaN

IAbs(i) == IF i < 0 THEN -i ELSE i
ISgn(i) == IF i < 0 THEN -1 ELSE IF i > 0 THEN 1 ELSE 0

Pow10(d) == CASE d = 0 -> 1 [] d = 1 -> 10 [] d = 2 -> 100 [] d = 3 -> 1000
              [] d = 4 -> 10000 [] d = 5 -> 100000 [] d = 6 -> 1000000

\* Round the integer m * 10^e to four significant digits.
Norm(m, e) ==
    LET a == IAbs(m)
        s == IF m < 0 THEN -1 ELSE 1
    IN  IF a = 0 THEN Zero
        ELSE IF a >= 10000 THEN
            LET d == IF a < 100000 THEN 1 ELSE IF a < 1000000 THEN 2
                     ELSE IF a < 10000000 THEN 3 ELSE IF a < 100000000 THEN 4
                     ELSE IF a < 1000000000 THEN 5 ELSE 6
                p == Pow10(d)
                r == (a + p \div 2) \div p
            IN  IF r = 10000 THEN <<s * 1000, e + d + 1>> ELSE <<s * r, e + d>>
        ELSE IF a >= 1000 THEN <<m, e>>
        ELSE IF a >= 100 THEN <<m * 10, e - 1>>
        ELSE IF a >= 10 THEN <<m * 100, e - 2>>
        ELSE <<m * 1000, e - 3>>

FromInt(i) == Norm(i, 0)

FNeg(x) == <<-x[1], x[2]>>
FAbs(x) == <<IAbs(x[1]), x[2]>>

FAdd(x, y) ==
    IF IsSpecial(x) \/ IsSpecial(y) THEN
        IF IsNaN(x) \/ IsNaN(y) THEN NaN
        ELSE IF IsSpecial(x) /\ IsSpecial(y) THEN (IF x = y THEN x ELSE NaN)
        ELSE IF IsSpecial(x) THEN x ELSE y
    ELSE IF x[1] = 0 THEN y
    ELSE IF y[1] = 0 THEN x
    ELSE LET d == x[2] - y[2]
         IN  IF d > 5 THEN x
             ELSE IF d < -5 THEN y
             ELSE IF d >= 0 THEN Norm(x[1] * Pow10(d) + y[1], y[2])
             ELSE Norm(x[1] + y[1] * Pow10(-d), x[2])

FSub(x, y) == FAdd(x, FNeg(y))

FMul(x, y) ==
    IF IsSpecial(x) \/ IsSpecial(y) THEN
        IF IsNaN(x) \/ IsNaN(y) \/ x[1] = 0 \/ y[1] = 0 THEN NaN
        ELSE <<ISgn(x[1]) * ISgn(y[1]), 1000>>
    ELSE Norm(x[1] * y[1], x[2] + y[2])

FDiv(x, y) ==
    IF IsSpecial(x) \/ IsSpecial(y) THEN
        IF IsNaN(x) \/ IsNaN(y) \/ (IsSpecial(x) /\ IsSpecial(y)) THEN NaN
        ELSE IF IsSpecial(y) THEN Zero
        ELSE <<ISgn(x[1]) * (IF y[1] < 0 THEN -1 ELSE 1), 1000>>
    ELSE IF y[1] = 0 THEN (IF x[1] = 0 THEN NaN ELSE <<ISgn(x[1]), 1000>>)
    ELSE Norm(ISgn(x[1]) * ISgn(y[1]) * ((IAbs(x[1]) * 100000) \div IAbs(y[1])),
              x[2] - y[2] - 5)

\* x < y, x > y (false when either is nan)
FLt(x, y) == ~IsNaN(x) /\ ~IsNaN(y) /\ x # y /\ FSub(x, y)[1] < 0
FGt(x, y) == FLt(y, x)
FGe(x, y) == ~IsNaN(x) /\ ~IsNaN(y) /\ ~FLt(x, y)

RECURSIVE ISqrtIn(_, _, _)
ISqrtIn(v, lo, hi) ==  \* the largest r in lo..hi with r*r <= v
    IF lo = hi THEN lo
    ELSE LET mid == (lo + hi + 1) \div 2
         IN  IF mid * mid <= v THEN ISqrtIn(v, mid, hi) ELSE ISqrtIn(v, lo, mid - 1)

FSqrt(x) ==
    IF IsSpecial(x) THEN (IF x = Inf THEN Inf ELSE NaN)
    ELSE IF x[1] < 0 THEN NaN
    ELSE IF x[1] = 0 THEN Zero
    ELSE IF x[2] % 2 = 0 THEN Norm(ISqrtIn(x[1] * 10000, 0, 10000), (x[2] \div 2) - 2)
    ELSE Norm(ISqrtIn(x[1] * 100000, 0, 31622), ((x[2] - 1) \div 2) - 2)

FMax(x, y) == IF IsNaN(x) \/ IsNaN(y) THEN NaN ELSE IF FLt(x, y) THEN y ELSE x

\* math.pi and numpy.cos, to the precision of the model
pi == <<3142, -3>>

FCos(x) ==  \* cos(x) = -cos(x - pi), by its series about pi
    LET y  == FSub(x, pi)
        y2 == FMul(y, y)
        s1 == FDiv(y2, FromInt(2))
        s2 == FDiv(FMul(y2, y2), FromInt(24))
        s3 == FDiv(FMul(FMul(y2, y2), y2), FromInt(720))
        s4 == FDiv(FMul(FMul(y2, y2), FMul(y2, y2)), FromInt(40320))
    IN  FNeg(FAdd(FSub(FAdd(FSub(One, s1), s2), s3), s4))

(***************************************************************************)
(* complex128                                                              *)
(***************************************************************************)
CZero == <<Zero, Zero>>
Re(x) == x[1]
Im(x) == x[2]
Cx(r) == <<r, Zero>>
CAdd(x, y) == <<FAdd(x[1], y[1]), FAdd(x[2], y[2])>>
CSub(x, y) == <<FSub(x[1], y[1]), FSub(x[2], y[2])>>
CNeg(x)    == <<FNeg(x[1]), FNeg(x[2])>>
CMul(x, y) == <<FSub(FMul(x[1], y[1]), FMul(x[2], y[2])),
                FAdd(FMul(x[1], y[2]), FMul(x[2], y[1]))>>
CScale(r, x) == <<FMul(r, x[1]), FMul(r, x[2])>>   \* float * complex
CDivF(x, r)  == <<FDiv(x[1], r), FDiv(x[2], r)>>   \* complex / float
CAbs(x) ==  \* np.abs of a complex number
    IF IsNaN(x[1]) \/ IsNaN(x[2]) THEN NaN
    ELSE IF x[2] = Zero THEN FAbs(x[1])
    ELSE IF x[1] = Zero THEN FAbs(x[2])
    ELSE FSqrt(FAdd(FMul(x[1], x[1]), FMul(x[2], x[2])))
CFinite(x) == IsFinite(x[1]) /\ IsFinite(x[2])

(***************************************************************************)
(* (n, n) arrays: a[Ix(n, i, j)] is a[i, j] (i, j from 0)                  *)
(***************************************************************************)
Array(f) == f \o <<>>      \* the array with every element computed
Ix(n, i, j) == i * n + j + 1
RowOf(n, x) == (x - 1) \div n
ColOf(n, x) == (x - 1) % n
Cells(n) == 1..(n * n)

RECURSIVE SumTo(_, _)
SumTo(term(_), m) ==       \* term(0) + ... + term(m)
    IF m = 0 THEN term(0) ELSE CAdd(SumTo(term, m - 1), term(m))

RECURSIVE MaxAbsTo(_, _)
MaxAbsTo(a, m) ==          \* np.max(np.abs(a[1..m]))
    IF m = 1 THEN CAbs(a[1]) ELSE FMax(MaxAbsTo(a, m - 1), CAbs(a[m]))

(***************************************************************************)
(* numpy.fft / pyfftw.interfaces.numpy_fft                                 *)
(***************************************************************************)
\* <<cos, sin>> of 2*pi*j/n
Twiddle(n, j) ==
    LET h == <<5000, -4>>       s3 == <<8660, -4>>
        c5 == <<3090, -4>>      s5 == <<9511, -4>>
        d5 == <<8090, -4>>      t5 == <<5878, -4>>
        m(x) == FNeg(x)
    IN  CASE n = 1 -> <<One, Zero>>
          [] n = 2 -> <<<<One, Zero>>, <<m(One), Zero>>>>[j + 1]
          [] n = 3 -> <<<<One, Zero>>, <<m(h), s3>>, <<m(h), m(s3)>>>>[j + 1]
          [] n = 4 -> <<<<One, Zero>>, <<Zero, One>>, <<m(One), Zero>>,
                        <<Zero, m(One)>>>>[j + 1]
          [] n = 5 -> <<<<One, Zero>>, <<c5, s5>>, <<m(d5), t5>>, <<m(d5), m(t5)>>,
                        <<c5, m(s5)>>>>[j + 1]
          [] n = 6 -> <<<<One, Zero>>, <<h, s3>>, <<m(h), s3>>, <<m(One), Zero>>,
                        <<m(h), m(s3)>>, <<h, m(s3)>>>>[j + 1]

\* exp(sgn * 2*pi*i * j / n)
W(n, j, sgn) == LET w == Twiddle(n, j % n)
                IN  IF sgn < 0 THEN <<w[1], FNeg(w[2])>> ELSE w

\* the transform along axis 1, then along axis 0
Dft2(a, n, sgn) ==
    LET w    == Array([j \in 1..n |-> W(n, j - 1, sgn)])
        rows == Array([x \in Cells(n) |->
                   LET i == RowOf(n, x)  q == ColOf(n, x)
                       term(b) == CMul(a[Ix(n, i, b)], w[((b * q) % n) + 1])
                   IN  SumTo(term, n - 1)])
    IN  Array([x \in Cells(n) |->
            LET p == RowOf(n, x)  q == ColOf(n, x)
                term(b) == CMul(rows[Ix(n, b, q)], w[((b * p) % n) + 1])
            IN  SumTo(term, n - 1)])

fftn(a, n)  == Dft2(a, n, -1)
ifftn(a, n) == LET b == Dft2(a, n, 1)
                   nn == FromInt(n)
               IN  Array([x \in Cells(n) |-> CDivF(CDivF(b[x], nn), nn)])

\* numpy's fftshift over both axes: np.roll by n // 2
fftshift(a, n) ==
    LET s == n \div 2
    IN  Array([x \in Cells(n) |->
            a[Ix(n, (RowOf(n, x) - s) % n, (ColOf(n, x) - s) % n)]])

ft(phi, n)  == fftshift(fftn(phi, n), n)
ift(psi, n) == ifftn(fftshift(psi, n), n)


(***************************************************************************)
(* PARAMETERS                                                              *)
(***************************************************************************)
MaxN     == 4       \* resolutions 1..MaxN are explored
MaxSteps == 3       \* the driver loop is followed for MaxSteps steps
MaxSpots == 1       \* cells in which np.random.random is varied

ubar == Zero                \* background zonal velocity (0.00)
beta == <<1700, -3>>        \* beta-plane f = f0 + beta y
tau  == <<1000, -4>>        \* coefficient of dissipation
SPEEDUP_AT_C == <<6000, -4>>
SLOWDN_AT_C  == <<8000, -4>>

\* raw_filter with the filter left out: the old current value, unfiltered
raw_filter_unfiltered(prev, curr, new) == curr

raw_filter(prev, curr, new) ==      \* nu = 0.01
    CAdd(curr, CScale(<<1000, -5>>, CAdd(CSub(new, CScale(Two, curr)), prev)))

courant_number(px, py, dx0, dt0) ==
    LET maxu   == MaxAbsTo(py, Len(py))
        maxv   == MaxAbsTo(px, Len(px))
        maxvel == FAdd(maxu, maxv)
    IN  FDiv(FMul(maxvel, dt0), dx0)

leapfrog(phi, f, dt0) == CAdd(phi, CScale(FMul(Two, dt0), f))

ICS == {"random", "spot"}
\* ICS.get(IC)
\* ICS.get(IC, <a default>): an unknown name falls back to an initial condition
ics_get_default(name) == IF name \in {"random", "spot"} THEN name ELSE "spot"
ics_get(name) == IF name \in ICS THEN name ELSE "None"

\* z[:] = 2*np.random.random(z.shape) - 1
random_ic(z0, r) == Array([x \in DOMAIN z0 |-> Cx(FSub(FMul(Two, r[x]), One))])

\* single spot of max val 2.0; z0 has shape (n, n)
spot_ic(z0, n) ==
    LET d == n \div 4
    IN  Array([x \in DOMAIN z0 |->
            LET i == RowOf(n, x)  j == ColOf(n, x)
                ppxy == (d - i) * (d - i) + (d * 2 - j) * (d * 2 - j)
                dist == FSqrt(FromInt(ppxy))
                arg  == FAdd(FDiv(FMul(FMul(<<5000, -4>>, pi), FSub(FromInt(d), dist)),
                                  FromInt(d)),
                             FMul(<<5000, -4>>, pi))
            IN  IF ppxy < d * d
                THEN Cx(FMul(Two, FMul(FCos(arg), FCos(arg))))
                ELSE z0[x]])

\* ic_fn(z)
ic_fn(fn, z0, n, r) == IF fn = "random" THEN random_ic(z0, r) ELSE spot_ic(z0, n)

\* (i k F[phi], i l F[phi]), with ik = 1j*kk and il = 1j*ll
grad_x(phit, kx) == Array([x \in DOMAIN phit |-> CMul(<<Zero, kx[x]>>, phit[x])])
grad_y(phit, lx) == Array([x \in DOMAIN phit |-> CMul(<<Zero, lx[x]>>, phit[x])])

\* anti_alias with > in place of >=: the cells on the cutoff are kept
anti_alias_strict(phit, kx, lx, kmax) ==
    Array([x \in DOMAIN phit |->
        IF FGt(FAbs(kx[x]), kmax) \/ FGt(FAbs(lx[x]), kmax)
        THEN CZero ELSE phit[x]])

anti_alias(phit, kx, lx, kmax) ==
    Array([x \in DOMAIN phit |->
        IF FGe(FAbs(kx[x]), kmax) \/ FGe(FAbs(lx[x]), kmax)
        THEN CZero ELSE phit[x]])

(***************************************************************************)
(* SETUP: physical and spectral domain                                     *)
(***************************************************************************)
domain == One
dx(n)  == FDiv(domain, FromInt(n))
dt_initial(n) == FDiv(FMul(<<4000, -4>>, FromInt(16)), FromInt(n))

dk == FDiv(FMul(Two, pi), domain)
\* np.arange(-n/2, n/2)*dk, with Python 2's floor division of ints
k(n) == LET lo == (-n) \div 2
            hi == n \div 2
        IN  Array([j \in 1..(hi - lo) |-> FMul(FromInt(lo + j - 1), dk)])
\* kk, ll = np.meshgrid(k, l):  kk[i, j] = k[j], ll[i, j] = l[i]
meshgrid_kk(n) == LET k1 == k(n) IN Array([x \in Cells(n) |-> k1[ColOf(n, x) + 1]])
meshgrid_ll(n) == LET l1 == k(n) IN Array([x \in Cells(n) |-> l1[RowOf(n, x) + 1]])
\* ksq = kk**2 + ll**2
ksq_sum(kx, lx) ==
    Array([x \in DOMAIN kx |-> FAdd(FMul(kx[x], kx[x]), FMul(lx[x], lx[x]))])
\* ksq without the zero wavenumber set to 1.0
ksq_nofix(a) == a
\* ksq[ksq == 0] = 1.0
ksq_fix(a) == Array([x \in DOMAIN a |-> IF a[x] = Zero THEN One ELSE a[x]])
\* rksq = 1.0 / ksq
reciprocal(a) == Array([x \in DOMAIN a |-> FDiv(One, a[x])])

nu(n) ==
    LET q  == FDiv(domain, FMul(FMul(FromInt(n \div 3), Two), pi))
        q2 == FMul(q, q)
    IN  FDiv(FMul(q2, q2), tau)
del4_of(n, ksq0, dt0) ==
    Array([x \in DOMAIN ksq0 |->
        FDiv(One, FAdd(One, FMul(FMul(nu(n), FMul(ksq0[x], ksq0[x])), dt0)))])

k_max_of(aa) == FMul(FromInt(aa * 2), dk)

zeros(n) == Array([x \in Cells(n) |-> CZero])

(***************************************************************************)
(* integrate(), line by line                                               *)
(***************************************************************************)
\* psit = -rksq * zt
poisson(rk, ztc) == Array([x \in DOMAIN ztc |-> CScale(FNeg(rk[x]), ztc[x])])

\* the Courant check with ALLOW_SPEEDUP ignored
adjust_dt_always(cn, dt0, speedup) ==
    IF FGt(cn, SLOWDN_AT_C) THEN FMul(<<9000, -4>>, dt0)
    ELSE IF FLt(cn, SPEEDUP_AT_C) THEN FMul(<<1100, -3>>, dt0)
    ELSE dt0

\* dt after the Courant check
adjust_dt(cn, dt0, speedup) ==
    IF FGt(cn, SLOWDN_AT_C) THEN FMul(<<9000, -4>>, dt0)
    ELSE IF FLt(cn, SPEEDUP_AT_C) /\ speedup THEN FMul(<<1100, -3>>, dt0)
    ELSE dt0

\* jac = psix * zy - psiy * zx + ubar * zx
jacobian(px, py, zx0, zy0) ==
    Array([x \in DOMAIN px |->
        CAdd(CSub(CMul(px[x], zy0[x]), CMul(py[x], zx0[x])), CScale(ubar, zx0[x]))])

\* rhs = -jact - beta*psixt
rhs_of(jt, pxt) ==
    Array([x \in DOMAIN jt |-> CSub(CNeg(jt[x]), CScale(beta, pxt[x]))])

\* zt_ = leapfrog(_zt, rhs, dt);  zt_ = zt_ * del4
advance(prev, f, dt0, d4) ==
    Array([x \in DOMAIN prev |-> CScale(d4[x], leapfrog(prev[x], f[x], dt0))])

\* _zt = raw_filter(_zt, zt, zt_)
filtered(prev, curr, new) ==
    Array([x \in DOMAIN prev |-> raw_filter(prev[x], curr[x], new[x])])

(***************************************************************************)
(* The program                                                             *)
(***************************************************************************)
\* what np.random.random may return: MaxSpots cells vary, the others are 0.5
RandomValues == {<<5000, -5>>, <<5000, -4>>, <<9500, -4>>}
RandomDraws(n) ==
    LET m == IF n * n < MaxSpots THEN n * n ELSE MaxSpots
    IN  {Array([x \in Cells(n) |-> IF x <= m THEN v[x] ELSE <<5000, -4>>]) :
            v \in [1..m -> RandomValues]}

\* z after lines 231-241, when the name IC is known
z0 == ic_fn(ics_get(IC), zeros(N), N, seed)

Init ==
    /\ pc = "start"
    /\ N \in 1..MaxN
    /\ IC \in ICS \cup {"vortex"}
    /\ AA_FAC \in {N \div 6, 1, N}
    /\ ALLOW_SPEEDUP \in BOOLEAN
    /\ seed \in (IF IC = "random" THEN RandomDraws(N) ELSE {<<>>})
    /\ dt = Zero /\ kk = <<>> /\ ll = <<>> /\ ksq = <<>> /\ rksq = <<>>
    /\ del4 = <<>> /\ k_max = Zero
    /\ z = <<>> /\ zt = <<>> /\ _zt = <<>> /\ zt_ = <<>>
    /\ c = Zero /\ t = 0
    /\ psit = <<>> /\ psixt = <<>> /\ psix = <<>> /\ psiy = <<>>
    /\ zx = <<>> /\ zy = <<>> /\ jac = <<>> /\ jact = <<>> /\ rhs = <<>>

\* lines 196-252: the module's setup code
Setup ==
    /\ pc = "start"
    /\ dt' = dt_initial(N)
    /\ kk' = meshgrid_kk(N)
    /\ ll' = meshgrid_ll(N)
    /\ ksq' = ksq_fix(ksq_sum(kk', ll'))
    /\ rksq' = reciprocal(ksq')
    /\ del4' = del4_of(N, ksq', dt')
    /\ k_max' = k_max_of(AA_FAC)
    /\ IF ics_get(IC) = "None"
       THEN /\ z' = zeros(N)                \* raise at line 240
            /\ pc' = "error"
            /\ UNCHANGED <<zt, _zt, zt_>>
       ELSE /\ z' = ic_fn(ics_get(IC), zeros(N), N, seed)
            /\ zt' = ft(z', N)
            /\ _zt' = zt'
            /\ zt_' = zt'
            /\ pc' = "run"
    /\ UNCHANGED <<params, c, t, locals>>

\* z is not refreshed (integrate without z among its globals)
ExposeStale == z' = z

\* the leapfrog step taken with the dt held at entry
TimeStepEntryDt ==
    /\ rhs' = rhs_of(jact', psixt')
    /\ zt_' = advance(_zt, rhs', dt, del4)

\* psit = -rksq * zt;  psixt, psiyt = grad(psit)
Streamfunction ==
    /\ psit' = poisson(rksq, zt)
    /\ psixt' = grad_x(psit', kk)

\* z = ift(zt): the global z, which the driver plots
Expose == z' = ift(zt, N)

\* psix, psiy, zx, zy in physical space
Physical ==
    /\ psix' = ift(psixt', N)
    /\ psiy' = ift(grad_y(psit', ll), N)
    /\ zx' = ift(grad_x(zt, kk), N)
    /\ zy' = ift(grad_y(zt, ll), N)

\* c = courant_number(psix, psiy, dx, dt), then the adjustment of dt
CourantCheck ==
    /\ c' = courant_number(psix', psiy', dx(N), dt)
    /\ dt' = adjust_dt(c', dt, ALLOW_SPEEDUP)

\* the Jacobian in real space, transformed and anti-aliased
Nonlinear ==
    /\ jac' = jacobian(psix', psiy', zx', zy')
    /\ jact' = anti_alias(ft(jac', N), kk, ll, k_max)

\* rhs, the leapfrog step and the dissipation
TimeStep ==
    /\ rhs' = rhs_of(jact', psixt')
    /\ zt_' = advance(_zt, rhs', dt', del4)

\* the Robert-Asselin filter, then zt = zt_
Filter ==
    /\ _zt' = filtered(_zt, zt, zt_')
    /\ zt' = zt_'

\* lines 267-278: one turn of the driver loop, c = integrate()
Integrate ==
    /\ pc = "run"
    /\ t < MaxSteps
    /\ t' = t + 1
    /\ Streamfunction
    /\ Expose
    /\ Physical
    /\ CourantCheck
    /\ Nonlinear
    /\ TimeStep
    /\ Filter
    /\ UNCHANGED <<pc, params, grid>>

Next == Setup \/ Integrate

Spec == Init /\ [][Next]_vars
(***************************************************************************)
(* Properties                                                              *)
(***************************************************************************)
Step == t' = t + 1        \* the step is one call of integrate()

\* two fields agree within 0.01 in every component
Close(a, b) ==
    /\ Len(a) = Len(b)
    /\ \A x \in DOMAIN a :
          /\ CFinite(a[x]) /\ CFinite(b[x])
          /\ FLt(FAbs(FSub(Re(a[x]), Re(b[x]))), <<1000, -5>>)
          /\ FLt(FAbs(FSub(Im(a[x]), Im(b[x]))), <<1000, -5>>)

\* C1: in one call of integrate() the value returned is the Courant number
\* computed with the dt held at entry; if it exceeds 0.8 the new dt is 0.9
\* times the entry dt; otherwise, if it is below 0.6 and speedup is allowed,
\* the new dt is 1.1 times the entry dt; in every other case dt is unchanged.
C1_CourantAdaptation ==
    [][Step =>
        /\ c' = FDiv(FMul(FAdd(MaxAbsTo(psiy', N * N), MaxAbsTo(psix', N * N)), dt),
                     dx(N))
        /\ IF FGt(c', SLOWDN_AT_C) THEN dt' = FMul(<<9000, -4>>, dt)
           ELSE IF FLt(c', SPEEDUP_AT_C) /\ ALLOW_SPEEDUP
                THEN dt' = FMul(<<1100, -3>>, dt)
           ELSE dt' = dt]_vars

\* a first call that slowed down: c > 0.8 and dt is 0.9 times the setup's dt
C1_Witness ==
    /\ t = 1 /\ FGt(c, SLOWDN_AT_C)
    /\ dt = FMul(<<9000, -4>>, dt_initial(N)) /\ dt # dt_initial(N)

\* C2: when the initial vorticity is identically zero, z, zt, _zt and zt_
\* are identically zero after any number of calls of integrate(), and every
\* call returns c = 0.
C2_Quiescent ==
    (pc = "run" /\ z0 = zeros(N)) =>
        /\ z = zeros(N) /\ zt = zeros(N) /\ _zt = zeros(N) /\ zt_ = zeros(N)
        /\ c = Zero

\* a zero random field on the 4 x 4 grid, after MaxSteps calls
C2_Witness ==
    /\ pc = "run" /\ t = MaxSteps /\ N = 4 /\ IC = "random"
    /\ z0 = zeros(N) /\ z = zeros(N) /\ zt = zeros(N) /\ c = Zero

\* the cutoffs the mask is tried with: 2*a*dk for a in 0..N, and 1.0
Cutoffs == {k_max_of(a) : a \in 0..N} \cup {One}

C4_ZeroWavenumber ==
    pc # "start" =>
        /\ Cardinality({x \in Cells(N) : kk[x] = Zero /\ ll[x] = Zero}) = 1
        /\ \A x \in Cells(N) :
              IF kk[x] = Zero /\ ll[x] = Zero
              THEN ksq[x] = One
              ELSE /\ ksq[x] = FAdd(FMul(kk[x], kk[x]), FMul(ll[x], ll[x]))
                   /\ FGt(ksq[x], Zero)
        /\ \A x \in Cells(N) : IsFinite(rksq[x])
        /\ t >= 1 => \A x \in Cells(N) : CFinite(psit[x])

\* C5: for every resolution N and every field z the program holds,
\* ift(ft(z)) equals z (within 0.01 in every component).
C5_RoundTrip == pc = "run" => Close(ift(ft(z, N), N), z)

\* C6: in every state after setup, del4 equals 1/(1 + nu*ksq^2*dt) with the
\* current dt.
C6_Del4Current == pc = "run" => del4 = del4_of(N, ksq, dt)

\* C7: when IC is not a key of ICS, setup stops at the lookup: z is left as
\* allocated (zeros), no transform is computed, and integrate() is never
\* called.
C7_UnknownICAborts ==
    (IC \notin ICS /\ pc # "start") =>
        /\ pc = "error"
        /\ z = zeros(N)
        /\ zt = <<>> /\ _zt = <<>> /\ zt_ = <<>>
        /\ t = 0 /\ psit = <<>>

\* setup has stopped on the unknown name, on the 4 x 4 grid
C7_Witness ==
    /\ pc = "error" /\ IC = "vortex" /\ N = 4
    /\ Len(z) = N * N /\ Len(ksq) = N * N /\ zt = <<>>

\* C8: the leapfrog advance of a call uses the dt left by that call's Courant
\* check: zt_ = del4 * (_zt + 2*dt'*rhs), with _zt the filtered previous
\* state held at entry.
C8_AdvanceUsesAdjustedDt ==
    [][Step =>
        /\ Len(zt_') = N * N
        /\ \A x \in Cells(N) :
              zt_'[x] = CScale(del4[x], CAdd(_zt[x], CScale(FMul(Two, dt'), rhs'[x])))
      ]_vars

\* a first call that changed dt, with a right-hand side and a next state that
\* are not zero
C8_Witness ==
    /\ t = 1 /\ dt # dt_initial(N)
    /\ \E x \in DOMAIN rhs : rhs[x] # CZero /\ zt_[x] # CZero /\ del4[x] # Zero

\* C9: at the end of a call _zt' = zt + 0.01*(zt_' - 2*zt + _zt), from the
\* _zt and zt held at entry and the zt_ already multiplied by del4, and then
\* zt' = zt_'.
C9_RobertAsselin ==
    [][Step =>
        /\ Len(_zt') = N * N
        /\ \A x \in Cells(N) :
              _zt'[x] = CAdd(zt[x], CScale(<<1000, -5>>,
                             CAdd(CSub(zt_'[x], CScale(Two, zt[x])), _zt[x])))
        /\ zt' = zt_'
      ]_vars

\* after the first call the previous state is neither the old current value
\* F[z0] nor the new one
C9_Witness ==
    /\ t = 1 /\ zt = zt_ /\ _zt # zt /\ _zt # ft(z0, N)

\* C10: after a call of integrate() z is the inverse transform of the zt held
\* at entry to the call; after the first call it is ift(ft(z0)).
C10_ExposedFieldLags ==
    [][Step =>
        /\ z' = ift(zt, N)
        /\ t = 0 => z' = ift(ft(z0, N), N)
      ]_vars

\* after the first call z is ift(ft(z0)) and differs from the inverse
\* transform of the zt the call produced
C10_Witness ==
    /\ t = 1 /\ z = ift(ft(z0, N), N) /\ z # ift(zt, N)
=============================================================================
